---- MODULE Spec2Model ----
(***************************************************************************)
(* Room / turn synchronisation server (src/server.py).                     *)
(*                                                                         *)
(* Every Socket.IO handler is a coroutine.  It runs without interruption   *)
(* up to an `await sio.emit(...)`; there the event loop may run any other  *)
(* handler or the timer_loop before the handler resumes.  Each action      *)
(* below is one such uninterrupted segment of a handler.  A handler whose  *)
(* remaining code after its last emit touches no state and emits nothing   *)
(* (create_room, get_player_list, the error returns of join_room) ends in  *)
(* the action of that emit.                                                *)
(*                                                                         *)
(* Time: time.time() is unbounded, so a room's turn_deadline is kept as    *)
(* the number of seconds from the current instant to the deadline          *)
(* (0 when the deadline is reached or passed); `current_time >=            *)
(* room.turn_deadline` is then turn_deadline = 0, and the passing of d     *)
(* seconds lowers every deadline by d.                                     *)
(***************************************************************************)
EXTENDS Integers, Sequences, FiniteSets, TLC

\* ------------------------------------------------------------------ bounds
\* Room objects constructed in one run.
MaxRooms == 2
\* Turn number after which no further submission is taken.
MaxTurn == 2
\* Handlers suspended at an emit at the same time.
MaxTasks == 2
\* Seconds that pass in one step of the clock.
ClockStep == 90

\* ------------------------------------------------------- program constants
MaxPlayers == 7
GracePeriod == 180
SleepInterval == 5

\* Connections of a run.
Clients == {"s1", "s2", "s3"}
\* Room identifiers a client can name (two of the 676000).
RoomIds == {"r1", "r2"}

VARIABLES
    conn,       \* sid -> "new" | "connected" | "gone", for the connections of the run
    env,        \* the inputs of the run: the identifiers generate_room_id
                \* returns, the saveData payloads, the outgoingActions sent
    rooms,      \* the rooms dict: sequence of Room records in insertion order
    nextOid,    \* number of Room objects constructed so far
    tasks,      \* handlers suspended at an emit
    timer,      \* the timer_loop coroutine: its position, the rest of its
                \* snapshot, and whether it has run since the clock advanced
    outbox,     \* the messages emitted by the last step
    last        \* what the last step was: handler, inputs, locals

vars == <<conn, env, rooms, nextOid, tasks, timer, outbox, last>>

\* ------------------------------------------------------------ data model
\* Player.__init__
Player(save_data) == [is_turn_done |-> FALSE, save_data |-> save_data]

\* the empty players dict
NoPlayers == [s \in {} |-> Player("d0")]

\* Room.__init__ ; oid is the identity of the object
Room(room_id, oid) ==
    [room_id |-> room_id, oid |-> oid, players |-> NoPlayers, turn |-> 0,
     max_players |-> MaxPlayers, turn_deadline |-> 0, timer_active |-> FALSE]

\* room_id in rooms
HasRoom(rs, room_id) == \E i \in 1..Len(rs) : rs[i].room_id = room_id

RoomIndex(rs, room_id) == CHOOSE i \in 1..Len(rs) : rs[i].room_id = room_id

\* rooms[room_id]
GetRoom(rs, room_id) == rs[RoomIndex(rs, room_id)]

\* list(rooms.keys())
RoomKeys(rs) == [i \in 1..Len(rs) |-> rs[i].room_id]

\* rooms[room_id] = room (the key exists)
PutRoom(rs, room) == [rs EXCEPT ![RoomIndex(rs, room.room_id)] = room]

\* del rooms[room_id]
DelRoom(rs, room_id) == SelectSeq(rs, LAMBDA r : r.room_id # room_id)

\* room.players[sid] = player
PutPlayer(room, sid, player) ==
    [room EXCEPT !.players =
        [s \in (DOMAIN room.players) \cup {sid} |->
            IF s = sid THEN player ELSE room.players[s]]]

\* del room.players[sid]
DelPlayer(room, sid) ==
    [room EXCEPT !.players = [s \in (DOMAIN room.players) \ {sid} |-> room.players[s]]]

\* len(room.players)
Count(room) == Cardinality(DOMAIN room.players)

\* sum(1 for p in players if p.is_turn_done)
DoneCount(room) ==
    Cardinality({s \in DOMAIN room.players : room.players[s].is_turn_done})

\* ------------------------------------------------------------- messages
\* sio.emit(event, payload, room=to); to is a room id, or "sid" for room=sid,
\* the connection the handler was called for.  A system_message carries
\* <<text, done_count, total>>, the numbers being 0 where the text has none.
Msg(event, to, payload) == [event |-> event, to |-> to, payload |-> payload]

\* The record of a step: the handler, the room id it was given, the rooms
\* check_turn_progression was called for and advanced, and its locals.
NoLabel == [op |-> "-", room_id |-> "-", done_count |-> 0,
            count |-> 0, evaluated |-> {}, advanced |-> {}]

Label(op, room_id) == [NoLabel EXCEPT !.op = op, !.room_id = room_id]

\* ------------------------------------------------------------- tasks
\* A suspended handler: kind "submit", "join" or "disconnect", the emit it is
\* suspended at, and the locals it uses when it resumes.
Task(kind, pc, room_id, oid, done_count, outgoing) ==
    [kind |-> kind, pc |-> pc, room_id |-> room_id, oid |-> oid,
     done_count |-> done_count, outgoing |-> outgoing]

\* the tasks without the i-th
Finish(ts, i) == [j \in 1..(Len(ts) - 1) |-> IF j < i THEN ts[j] ELSE ts[j + 1]]

InitWith(clients, inputs) ==
    /\ conn = [s \in clients |-> "new"]
    /\ env = inputs
    /\ rooms = <<>>
    /\ nextOid = 0
    /\ tasks = <<>>
    /\ timer = [pc |-> "sleep", todo |-> <<>>, ticked |-> FALSE]
    /\ outbox = <<>>
    /\ last = NoLabel

\* One room identifier, one payload, no outgoing actions.
Inputs == [room_ids |-> {"r1"}, saveData |-> {"d0"}, outgoing |-> {FALSE}]

Init == InitWith(Clients, Inputs)

\* ------------------------------------------------- check_turn_progression
\* current_time >= room.turn_deadline
DeadlineReached(room) == room.turn_deadline <= 0

\* ShouldProceed that does not look at the flags
ShouldProceedAlways(room) == TRUE

\* ShouldProceed without the deadline test
ShouldProceedNoDeadline(room) ==
    DoneCount(room) = Count(room) \/ (DoneCount(room) > 0 /\ room.timer_active)

\* lines 67-77: should_proceed, for a room with at least one player
ShouldProceed(room) ==
    LET count == Count(room)
        done_count == DoneCount(room)
    IN  IF done_count = count THEN TRUE
        ELSE IF done_count > 0 /\ room.timer_active THEN DeadlineReached(room)
        ELSE FALSE

\* ProceedTurn without the reset of the players' flags
ProceedTurnKeepFlags(room) ==
    [room EXCEPT !.turn = @ + 1, !.timer_active = FALSE]

\* lines 81-89: the turn advance
ProceedTurn(room) ==
    [room EXCEPT !.turn = @ + 1,
                 !.timer_active = FALSE,
                 !.players = [s \in DOMAIN @ |-> [@[s] EXCEPT !.is_turn_done = FALSE]]]

NoProgress(rs) ==
    [rooms |-> rs, out |-> <<>>, advanced |-> FALSE, done_count |-> 0, count |-> 0]

\* CheckTurnProgression whose proceed_turn carries the turn before the advance
CheckTurnProgressionOldTurn(rs, room_id) ==
    IF ~HasRoom(rs, room_id) THEN NoProgress(rs)
    ELSE LET room == GetRoom(rs, room_id) IN
         IF Count(room) = 0 THEN NoProgress(rs)
         ELSE IF ShouldProceed(room)
              THEN [rooms |-> PutRoom(rs, ProceedTurn(room)),
                    out |-> <<Msg("proceed_turn", room_id, room.turn)>>,
                    advanced |-> TRUE,
                    done_count |-> DoneCount(room), count |-> Count(room)]
              ELSE [NoProgress(rs) EXCEPT !.done_count = DoneCount(room),
                                          !.count = Count(room)]

\* check_turn_progression(room_id): the rooms after the call, the message it
\* emits, and its locals
CheckTurnProgression(rs, room_id) ==
    IF ~HasRoom(rs, room_id) THEN NoProgress(rs)
    ELSE LET room == GetRoom(rs, room_id) IN
         IF Count(room) = 0 THEN NoProgress(rs)
         ELSE IF ShouldProceed(room)
              THEN LET after == ProceedTurn(room) IN
                   [rooms |-> PutRoom(rs, after),
                    out |-> <<Msg("proceed_turn", room_id, after.turn)>>,
                    advanced |-> TRUE,
                    done_count |-> DoneCount(room), count |-> Count(room)]
              ELSE [NoProgress(rs) EXCEPT !.done_count = DoneCount(room),
                                          !.count = Count(room)]

\* The for loop of timer_loop over the rest of its snapshot, up to the first
\* room whose check suspends at the proceed_turn emit.
RECURSIVE ScanRooms(_, _)
ScanRooms(rs, todo) ==
    IF todo = <<>>
    THEN [rooms |-> rs, todo |-> <<>>, out |-> <<>>, evaluated |-> {},
          advanced |-> {}, done_count |-> 0, count |-> 0]
    ELSE LET r == CheckTurnProgression(rs, Head(todo)) IN
         IF r.advanced
         THEN [rooms |-> r.rooms, todo |-> Tail(todo), out |-> r.out,
               evaluated |-> {Head(todo)}, advanced |-> {Head(todo)},
               done_count |-> r.done_count, count |-> r.count]
         ELSE LET rest == ScanRooms(rs, Tail(todo)) IN
              [rest EXCEPT !.evaluated = @ \cup {Head(todo)}]

TimerStep(todo) ==
    LET r == ScanRooms(rooms, todo) IN
    /\ rooms' = r.rooms
    /\ timer' = IF r.advanced = {}
                THEN [pc |-> "sleep", todo |-> <<>>, ticked |-> TRUE]
                ELSE [pc |-> "scan", todo |-> r.todo, ticked |-> TRUE]
    /\ outbox' = r.out
    /\ last' = [Label("timer_loop", "-") EXCEPT
                    !.evaluated = r.evaluated, !.advanced = r.advanced,
                    !.done_count = r.done_count, !.count = r.count]
    /\ UNCHANGED <<conn, env, nextOid, tasks>>

\* timer_loop: asyncio.sleep(5) returns and the loop takes its snapshot
TimerTick ==
    /\ timer.pc = "sleep"
    /\ TimerStep(RoomKeys(rooms))

\* timer_loop resumes after a proceed_turn emit
TimerResume ==
    /\ timer.pc = "scan"
    /\ TimerStep(timer.todo)

\* d seconds pass
Elapse(room, d) ==
    [room EXCEPT !.turn_deadline = IF @ > d THEN @ - d ELSE 0]

\* ClockStep seconds pass.  The timer_loop sleeps 5 seconds at a time, so it
\* has run at least once since the clock last advanced.
AdvanceClock ==
    /\ SleepInterval <= ClockStep
    /\ timer.ticked
    /\ timer' = [timer EXCEPT !.ticked = FALSE]
    /\ rooms' = [i \in 1..Len(rooms) |-> Elapse(rooms[i], ClockStep)]
    /\ outbox' = <<>>
    /\ last' = Label("clock", "-")
    /\ UNCHANGED <<conn, env, nextOid, tasks>>

\* ------------------------------------------------------------- handlers
\* connect(sid, environ)
Connect(sid) ==
    /\ conn[sid] = "new"
    /\ conn' = [conn EXCEPT ![sid] = "connected"]
    /\ outbox' = <<>>
    /\ last' = Label("connect", "-")
    /\ UNCHANGED <<env, rooms, nextOid, tasks, timer>>

\* generate_room_id: the identifiers it can return
GenerateRoomId == env.room_ids

\* FreshRoomIds without the `while room_id in rooms` loop
AnyRoomId(rs) == GenerateRoomId

\* lines 117-119: the identifiers the while loop can end with
FreshRoomIds(rs) == {room_id \in GenerateRoomId : ~HasRoom(rs, room_id)}

\* create_room(sid, data)
CreateRoom(sid, saveData) ==
    /\ conn[sid] = "connected"
    /\ nextOid < MaxRooms
    /\ \E room_id \in FreshRoomIds(rooms) :
        LET room == PutPlayer(Room(room_id, nextOid + 1), sid, Player(saveData)) IN
        /\ rooms' = IF HasRoom(rooms, room_id) THEN PutRoom(rooms, room)
                    ELSE Append(rooms, room)
        /\ outbox' = <<Msg("room_joined", "sid", room_id)>>
        /\ last' = Label("create_room", room_id)
    /\ nextOid' = nextOid + 1
    /\ UNCHANGED <<conn, env, tasks, timer>>

\* create_room(sid, data) with a payload that lacks 'islandName' or
\* 'saveData': line 121 has registered the Room when line 122 raises
\* KeyError, and the handler ends there
CreateRoomKeyError(sid) ==
    /\ conn[sid] = "connected"
    /\ nextOid < MaxRooms
    /\ \E room_id \in FreshRoomIds(rooms) :
        /\ rooms' = Append(rooms, Room(room_id, nextOid + 1))
        /\ last' = Label("create_room_KeyError", room_id)
    /\ outbox' = <<>>
    /\ nextOid' = nextOid + 1
    /\ UNCHANGED <<conn, env, tasks, timer>>

\* JoinNotFound that registers the missing room
JoinNotFoundCreates(rs, room_id) ==
    [rooms |-> Append(rs, Room(room_id, 0)),
     out |-> <<Msg("error", "sid", "not_found")>>]

\* lines 133-135: join_room for a room_id that is not in rooms
JoinNotFound(rs, room_id) ==
    [rooms |-> rs, out |-> <<Msg("error", "sid", "not_found")>>]

\* RoomIsFull with > for >=
RoomIsFullOffByOne(room) == Count(room) > room.max_players

\* line 138
RoomIsFull(room) == Count(room) >= room.max_players

\* join_room(sid, data), lines 131-146: up to the error emit or the
\* room_joined emit
JoinRoom(sid, room_id, saveData) ==
    /\ conn[sid] = "connected"
    /\ IF ~HasRoom(rooms, room_id)
       THEN /\ outbox' = JoinNotFound(rooms, room_id).out
            /\ rooms' = JoinNotFound(rooms, room_id).rooms
            /\ tasks' = tasks
       ELSE LET room == GetRoom(rooms, room_id) IN
            IF RoomIsFull(room)
            THEN /\ outbox' = <<Msg("error", "sid", "full")>>
                 /\ rooms' = rooms
                 /\ tasks' = tasks
            ELSE /\ Len(tasks) < MaxTasks
                 /\ rooms' = PutRoom(rooms, PutPlayer(room, sid, Player(saveData)))
                 /\ outbox' = <<Msg("room_joined", "sid", room_id)>>
                 /\ tasks' = Append(tasks, Task("join", "room_joined", room_id,
                                                room.oid, 0, FALSE))
    /\ last' = Label("join_room", room_id)
    /\ UNCHANGED <<conn, env, nextOid, timer>>

\* join_room resumes after the room_joined emit: line 149
JoinResume(i) ==
    /\ i \in 1..Len(tasks)
    /\ tasks[i].kind = "join"
    /\ outbox' = <<Msg("system_message", tasks[i].room_id, <<"joined", 0, 0>>)>>
    /\ last' = Label("join_resume", tasks[i].room_id)
    /\ tasks' = Finish(tasks, i)
    /\ UNCHANGED <<conn, env, rooms, nextOid, timer>>

\* UpdateState without the test that sid is a player of the room
UpdateStateAnyone(sid, room_id, saveData) ==
    /\ conn[sid] = "connected"
    /\ rooms' = IF HasRoom(rooms, room_id)
                THEN PutRoom(rooms, PutPlayer(GetRoom(rooms, room_id), sid, Player(saveData)))
                ELSE rooms
    /\ outbox' = <<>>
    /\ last' = Label("update_state", room_id)
    /\ UNCHANGED <<conn, env, nextOid, tasks, timer>>

\* update_state(sid, data)
UpdateState(sid, room_id, saveData) ==
    /\ conn[sid] = "connected"
    /\ rooms' = IF HasRoom(rooms, room_id) /\ sid \in DOMAIN GetRoom(rooms, room_id).players
                THEN LET room == GetRoom(rooms, room_id) IN
                     PutRoom(rooms, [room EXCEPT !.players[sid].save_data = saveData])
                ELSE rooms
    /\ outbox' = <<>>
    /\ last' = Label("update_state", room_id)
    /\ UNCHANGED <<conn, env, nextOid, tasks, timer>>

\* get_player_list(sid, data)
GetPlayerList(sid, room_id) ==
    /\ conn[sid] = "connected"
    /\ outbox' = IF HasRoom(rooms, room_id)
                 THEN <<Msg("player_list", "sid", GetRoom(rooms, room_id).players)>>
                 ELSE <<>>
    /\ last' = Label("get_player_list", room_id)
    /\ UNCHANGED <<conn, env, rooms, nextOid, tasks, timer>>

\* len(room.players) for the Room object a suspended handler holds
HeldRoomCount(rs, room_id, oid) ==
    IF HasRoom(rs, room_id) /\ GetRoom(rs, room_id).oid = oid
    THEN Count(GetRoom(rs, room_id))
    ELSE 0

\* lines 197-202 of submit_turn_action, up to the next emit: the message
\* emitted and where the handler is suspended
SubmitAfterTimer(rs, t) ==
    IF t.outgoing
    THEN [out |-> <<Msg("receive_external_actions", t.room_id, "actions")>>,
          pc |-> "external"]
    ELSE [out |-> <<Msg("system_message", t.room_id,
                        <<"turn_done", t.done_count,
                          HeldRoomCount(rs, t.room_id, t.oid)>>)>>,
          pc |-> "system_message"]

\* ArmsTimer for the second player done instead of the first
ArmsTimerOnSecond(done_count) == done_count = 2

\* line 189
ArmsTimer(done_count) == done_count = 1

\* submit_turn_action(sid, data), lines 179-192, by a member of the room
SubmitTurnAction(sid, room_id, saveData, outgoing) ==
    /\ conn[sid] = "connected"
    /\ HasRoom(rooms, room_id)
    /\ sid \in DOMAIN GetRoom(rooms, room_id).players
    /\ GetRoom(rooms, room_id).turn < MaxTurn
    /\ Len(tasks) < MaxTasks
    /\ LET room == GetRoom(rooms, room_id)
           marked == [room EXCEPT !.players[sid].save_data = saveData,
                                  !.players[sid].is_turn_done = TRUE]
           done_count == DoneCount(marked)
           armed == [marked EXCEPT !.timer_active = TRUE,
                                   !.turn_deadline = GracePeriod]
           t == Task("submit", "timer_start", room_id, room.oid, done_count, outgoing)
       IN  IF ArmsTimer(done_count)
           THEN /\ rooms' = PutRoom(rooms, armed)
                /\ outbox' = <<Msg("timer_start", room_id, armed.turn_deadline)>>
                /\ tasks' = Append(tasks, t)
                /\ last' = [Label("submit_turn_action", room_id)
                                EXCEPT !.done_count = done_count]
           ELSE LET rs == PutRoom(rooms, marked)
                    c == SubmitAfterTimer(rs, t)
                IN  /\ rooms' = rs
                    /\ outbox' = c.out
                    /\ tasks' = Append(tasks, [t EXCEPT !.pc = c.pc])
                    /\ last' = [Label("submit_turn_action", room_id)
                                    EXCEPT !.done_count = done_count]
    /\ UNCHANGED <<conn, env, nextOid, timer>>

\* submit_turn_action for a room that is not registered or by a non-member
SubmitIgnored(sid, room_id) ==
    /\ conn[sid] = "connected"
    /\ ~(HasRoom(rooms, room_id) /\ sid \in DOMAIN GetRoom(rooms, room_id).players)
    /\ outbox' = <<>>
    /\ last' = Label("submit_ignored", room_id)
    /\ UNCHANGED <<conn, env, rooms, nextOid, tasks, timer>>

\* submit_turn_action resumes after the timer_start or the
\* receive_external_actions emit
SubmitResume(i) ==
    /\ i \in 1..Len(tasks)
    /\ tasks[i].kind = "submit"
    /\ tasks[i].pc \in {"timer_start", "external"}
    /\ LET t == tasks[i]
           c == IF t.pc = "timer_start" THEN SubmitAfterTimer(rooms, t)
                ELSE SubmitAfterTimer(rooms, [t EXCEPT !.outgoing = FALSE])
       IN  /\ outbox' = c.out
           /\ tasks' = [tasks EXCEPT ![i].pc = c.pc]
           /\ last' = [Label("submit_resume", t.room_id)
                           EXCEPT !.done_count = t.done_count]
    /\ UNCHANGED <<conn, env, rooms, nextOid, timer>>

\* submit_turn_action resumes after the system_message emit: line 203
SubmitCheck(i) ==
    /\ i \in 1..Len(tasks)
    /\ tasks[i].kind = "submit"
    /\ tasks[i].pc = "system_message"
    /\ LET t == tasks[i]
           r == CheckTurnProgression(rooms, t.room_id)
       IN  /\ rooms' = r.rooms
           /\ outbox' = r.out
           /\ last' = [Label("submit_check", t.room_id) EXCEPT
                           !.evaluated = {t.room_id},
                           !.advanced = IF r.advanced THEN {t.room_id} ELSE {},
                           !.done_count = r.done_count, !.count = r.count]
    /\ tasks' = Finish(tasks, i)
    /\ UNCHANGED <<conn, env, nextOid, timer>>

\* line 207-208: the first room, in key order, that has sid as a player
MemberRooms(rs, sid) == {i \in 1..Len(rs) : sid \in DOMAIN rs[i].players}

FirstMemberRoom(rs, sid) ==
    CHOOSE i \in MemberRooms(rs, sid) : \A j \in MemberRooms(rs, sid) : i <= j

\* disconnect(sid), lines 207-211
Disconnect(sid) ==
    /\ conn[sid] = "connected"
    /\ conn' = [conn EXCEPT ![sid] = "gone"]
    /\ IF MemberRooms(rooms, sid) = {}
       THEN /\ outbox' = <<>>
            /\ last' = Label("disconnect", "-")
            /\ UNCHANGED <<env, rooms, tasks>>
       ELSE LET room == rooms[FirstMemberRoom(rooms, sid)] IN
            /\ Len(tasks) < MaxTasks
            /\ rooms' = PutRoom(rooms, DelPlayer(room, sid))
            /\ outbox' = <<Msg("system_message", room.room_id, <<"left", 0, 0>>)>>
            /\ tasks' = Append(tasks, Task("disconnect", "system_message",
                                           room.room_id, room.oid, 0, FALSE))
            /\ last' = Label("disconnect", room.room_id)
    /\ UNCHANGED <<env, nextOid, timer>>

\* RemoveIfEmpty without the emptiness test
RemoveAlways(rs, room_id) ==
    IF ~HasRoom(rs, room_id) THEN rs ELSE DelRoom(rs, room_id)

\* lines 212-213: the rooms after the removal check; rooms[room_id] raises
\* KeyError when the room is gone, and the handler ends there
RemoveIfEmpty(rs, room_id) ==
    IF ~HasRoom(rs, room_id) THEN rs
    ELSE IF Count(GetRoom(rs, room_id)) = 0 THEN DelRoom(rs, room_id)
    ELSE rs

\* disconnect resumes after the system_message emit
DisconnectResume(i) ==
    /\ i \in 1..Len(tasks)
    /\ tasks[i].kind = "disconnect"
    /\ rooms' = RemoveIfEmpty(rooms, tasks[i].room_id)
    /\ outbox' = <<>>
    /\ last' = Label(IF HasRoom(rooms, tasks[i].room_id)
                     THEN "disconnect_resume" ELSE "disconnect_KeyError",
                     tasks[i].room_id)
    /\ tasks' = Finish(tasks, i)
    /\ UNCHANGED <<conn, env, nextOid, timer>>

\* ------------------------------------------------------- specifications
ClientStep(sid) ==
    \/ Connect(sid)
    \/ \E saveData \in env.saveData : CreateRoom(sid, saveData)
    \/ CreateRoomKeyError(sid)
    \/ \E room_id \in RoomIds, saveData \in env.saveData : JoinRoom(sid, room_id, saveData)
    \/ \E room_id \in RoomIds, saveData \in env.saveData : UpdateState(sid, room_id, saveData)
    \/ \E room_id \in RoomIds : GetPlayerList(sid, room_id)
    \/ \E room_id \in RoomIds, saveData \in env.saveData, outgoing \in env.outgoing :
            SubmitTurnAction(sid, room_id, saveData, outgoing)
    \/ \E room_id \in RoomIds : SubmitIgnored(sid, room_id)
    \/ Disconnect(sid)

\* a suspended handler resumes
ResumeStep ==
    \/ \E i \in 1..MaxTasks : SubmitResume(i)
    \/ \E i \in 1..MaxTasks : SubmitCheck(i)
    \/ \E i \in 1..MaxTasks : JoinResume(i)
    \/ \E i \in 1..MaxTasks : DisconnectResume(i)

\* the timer_loop runs, or time passes
TimerLoopStep ==
    \/ TimerTick
    \/ TimerResume
    \/ AdvanceClock

\* The running coroutine has yielded to the event loop: the transport has
\* taken the emitted messages and the record of the step is dropped.  The
\* event loop runs one coroutine at a time, so every other step starts here.
Ready == last = NoLabel

Yield ==
    /\ ~Ready
    /\ outbox' = <<>>
    /\ last' = NoLabel
    /\ UNCHANGED <<conn, env, rooms, nextOid, tasks, timer>>

Next ==
    \/ Ready /\ \E sid \in DOMAIN conn : ClientStep(sid)
    \/ Ready /\ ResumeStep
    \/ Ready /\ TimerLoopStep
    \/ Yield

Spec == Init /\ [][Next]_vars

\* Two clients; the asyncio event loop runs every ready coroutine: the
\* timer_loop task wakes from each sleep and resumes from each emit, every
\* suspended handler resumes, and time passes.
InitLive == InitWith({"s1", "s2"}, Inputs)

Fairness ==
    /\ WF_vars(Yield)
    /\ SF_vars(Ready /\ TimerTick)
    /\ SF_vars(Ready /\ TimerResume)
    /\ SF_vars(Ready /\ AdvanceClock)
    /\ SF_vars(Ready /\ ResumeStep)

SpecLive == InitLive /\ [][Next]_vars /\ Fairness

\* Two clients and two room identifiers.
InputsRooms == [room_ids |-> {"r1", "r2"}, saveData |-> {"d0"}, outgoing |-> {FALSE}]

InitRooms == InitWith({"s1", "s2"}, InputsRooms)

\* The handlers alone: no timer_loop tick falls into the run.
NextRooms ==
    \/ Ready /\ \E sid \in DOMAIN conn : ClientStep(sid)
    \/ Ready /\ ResumeStep
    \/ Yield

SpecRooms == InitRooms /\ [][NextRooms]_vars

\* A room one short of max_players: "s1" has created "r1" and "s2".."s6"
\* have joined it, and none of them sends anything further; "s7" and "s8"
\* are the connections of the run.
Waiting == {"s1", "s2", "s3", "s4", "s5", "s6"}

RoomOfWaiting ==
    [Room("r1", 1) EXCEPT !.players = [s \in Waiting |-> Player("d0")]]

InitFull ==
    /\ conn = [s \in {"s7", "s8"} |-> "new"]
    /\ env = InputsRooms
    /\ rooms = <<RoomOfWaiting>>
    /\ nextOid = 1
    /\ tasks = <<>>
    /\ timer = [pc |-> "sleep", todo |-> <<>>, ticked |-> FALSE]
    /\ outbox = <<>>
    /\ last = NoLabel

SpecFull == InitFull /\ [][NextRooms]_vars

\* A room in the middle of a turn, and two connections outside it: "s1" has
\* created "r1", "s2" has joined it, "s1" has submitted its turn and neither
\* sends anything further; "s8" and "s9" are the connections of the run, and
\* they send two different saveData payloads.
InputsOutsider == [room_ids |-> {"r1", "r2"}, saveData |-> {"d0", "d1"}, outgoing |-> {FALSE}]

RoomInTurn ==
    [Room("r1", 1) EXCEPT
        !.players = [s \in {"s1", "s2"} |-> [Player("d0") EXCEPT !.is_turn_done = (s = "s1")]],
        !.timer_active = TRUE,
        !.turn_deadline = GracePeriod]

InitOutsider ==
    /\ conn = [s \in {"s8", "s9"} |-> "new"]
    /\ env = InputsOutsider
    /\ rooms = <<RoomInTurn>>
    /\ nextOid = 1
    /\ tasks = <<>>
    /\ timer = [pc |-> "sleep", todo |-> <<>>, ticked |-> FALSE]
    /\ outbox = <<>>
    /\ last = NoLabel

SpecOutsider == InitOutsider /\ [][NextRooms]_vars

\* ------------------------------------------------------------- properties
\* the messages of the outbox addressed to `to`
SentTo(out, to) == {k \in 1..Len(out) : out[k].to = to}

\* the room object registered under room_id is the same before and after
SameRoomObject(room_id) ==
    /\ HasRoom(rooms, room_id)
    /\ HasRoom(rooms', room_id)
    /\ GetRoom(rooms', room_id).oid = GetRoom(rooms, room_id).oid

\* the registry holds the same under room_id before and after
RoomUntouched(room_id) ==
    /\ HasRoom(rooms', room_id) = HasRoom(rooms, room_id)
    /\ HasRoom(rooms, room_id) => GetRoom(rooms', room_id) = GetRoom(rooms, room_id)

\* C1: a call of check_turn_progression on a registered, non-empty room
\* advances the turn exactly when done_count = total, or done_count > 0 and
\* the timer is active and the deadline is reached; otherwise, and for a
\* missing or empty room, it changes nothing of the room and emits nothing
\* to it.
C1_AdvanceCondition(room) ==
    \/ DoneCount(room) = Count(room)
    \/ DoneCount(room) > 0 /\ room.timer_active /\ room.turn_deadline = 0

C1_EvaluateStep ==
    \A r \in last'.evaluated :
        IF HasRoom(rooms, r) /\ Count(GetRoom(rooms, r)) > 0
                             /\ C1_AdvanceCondition(GetRoom(rooms, r))
        THEN /\ r \in last'.advanced
             /\ SameRoomObject(r)
             /\ GetRoom(rooms', r).turn = GetRoom(rooms, r).turn + 1
        ELSE /\ r \notin last'.advanced
             /\ RoomUntouched(r)
             /\ SentTo(outbox', r) = {}

C1_Evaluate == [][C1_EvaluateStep]_vars

\* C1 witness: a timer_loop tick has advanced a room with one of two players done
C1_Witness ==
    /\ last.op = "timer_loop"
    /\ last.advanced # {}
    /\ last.done_count = 1
    /\ last.count = 2

\* C2: a room's turn changes by 0 or +1 in a step; an advance emits exactly
\* one proceed_turn, carrying the new turn; no proceed_turn is emitted
\* otherwise; a new room starts at turn 0.
C2_TurnStep ==
    /\ \A r \in RoomIds :
        /\ SameRoomObject(r) =>
            LET before == GetRoom(rooms, r).turn
                after == GetRoom(rooms', r).turn
            IN  \/ /\ after = before
                   /\ \A k \in SentTo(outbox', r) : outbox'[k].event # "proceed_turn"
                \/ /\ after = before + 1
                   /\ outbox' = <<Msg("proceed_turn", r, after)>>
        /\ (HasRoom(rooms', r) /\ ~SameRoomObject(r)) => GetRoom(rooms', r).turn = 0
    /\ \A k \in 1..Len(outbox') :
        outbox'[k].event = "proceed_turn" =>
            /\ SameRoomObject(outbox'[k].to)
            /\ GetRoom(rooms', outbox'[k].to).turn = GetRoom(rooms, outbox'[k].to).turn + 1

C2_TurnMonotone == [][C2_TurnStep]_vars

\* C2 witness: the second advance of a room has emitted proceed_turn 2
C2_Witness ==
    \E i \in 1..Len(rooms) :
        /\ rooms[i].turn = 2
        /\ outbox = <<Msg("proceed_turn", rooms[i].room_id, 2)>>

\* C3: in the state after a turn advance every player of the room has
\* is_turn_done false and timer_active is false.
C3_AdvanceStep ==
    \A r \in RoomIds :
        (SameRoomObject(r) /\ GetRoom(rooms', r).turn # GetRoom(rooms, r).turn) =>
            /\ ~GetRoom(rooms', r).timer_active
            /\ \A s \in DOMAIN GetRoom(rooms', r).players :
                    ~GetRoom(rooms', r).players[s].is_turn_done

C3_AfterAdvance == [][C3_AdvanceStep]_vars

\* C3 witness: an advance by the last submit of a room of two
C3_Witness ==
    /\ last.op = "submit_check"
    /\ last.advanced # {}
    /\ last.done_count = 2
    /\ last.count = 2

\* C4: while no handler is suspended at an emit, the timer of a room is
\* never active while no member is done or while all members are done.
C4_TimerOnlyWhilePartial ==
    tasks = <<>> =>
        \A i \in 1..Len(rooms) :
            rooms[i].timer_active =>
                (0 < DoneCount(rooms[i]) /\ DoneCount(rooms[i]) < Count(rooms[i]))

\* C5: timer_start is emitted only to a room in which at least one player
\* has finished and at least one has not.
C5_ArmOnlyWhenPartial ==
    \A k \in 1..Len(outbox) :
        outbox[k].event = "timer_start" =>
            /\ HasRoom(rooms, outbox[k].to)
            /\ 0 < DoneCount(GetRoom(rooms, outbox[k].to))
            /\ DoneCount(GetRoom(rooms, outbox[k].to)) < Count(GetRoom(rooms, outbox[k].to))

\* C6: whenever a player of room "r1" has is_turn_done set, the flag is
\* eventually cleared: the turn advances (or the player or the room goes).
C6_Done(s) ==
    /\ HasRoom(rooms, "r1")
    /\ s \in DOMAIN GetRoom(rooms, "r1").players
    /\ GetRoom(rooms, "r1").players[s].is_turn_done

C6_Progress == \A s \in {"s1", "s2"} : C6_Done(s) ~> ~C6_Done(s)

\* C7: a step leaves a registered room without a player, after it had one,
\* only by suspending a disconnect for that room; a disconnect that resumes
\* and finds its room registered and without a player removes it; and a step
\* removes a room from the registry only if the room has no player.
C7_EmptiedStep ==
    \A r \in RoomIds :
        (SameRoomObject(r) /\ Count(GetRoom(rooms, r)) > 0
                           /\ Count(GetRoom(rooms', r)) = 0) =>
            /\ last'.op = "disconnect"
            /\ Len(tasks') = Len(tasks) + 1
            /\ tasks'[Len(tasks')].kind = "disconnect"
            /\ tasks'[Len(tasks')].room_id = r

C7_ResumeStep ==
    (/\ last'.op = "disconnect_resume"
     /\ HasRoom(rooms, last'.room_id)
     /\ Count(GetRoom(rooms, last'.room_id)) = 0) =>
        ~HasRoom(rooms', last'.room_id)

C7_RemovalStep ==
    \A r \in RoomIds :
        (HasRoom(rooms, r) /\ ~HasRoom(rooms', r)) => Count(GetRoom(rooms, r)) = 0

C7_EmptyRoomsRemoved == [][C7_EmptiedStep /\ C7_ResumeStep /\ C7_RemovalStep]_vars

\* C7 witness: a resumed disconnect has removed its room
C7_Witness ==
    /\ last.op = "disconnect_resume"
    /\ ~HasRoom(rooms, last.room_id)

\* C10: create_room registers the new room under an identifier that was not
\* a key of the registry, leaves every registered room as it was, and the
\* keys of the registry are pairwise distinct.
C10_CreateStep ==
    last'.op \in {"create_room", "create_room_KeyError"} =>
        /\ ~HasRoom(rooms, last'.room_id)
        /\ Len(rooms') = Len(rooms) + 1
        /\ \A i \in 1..Len(rooms) : rooms'[i] = rooms[i]
        /\ rooms'[Len(rooms')].room_id = last'.room_id

C10_DistinctIds ==
    \A i, j \in 1..Len(rooms) : i # j => rooms[i].room_id # rooms[j].room_id

C10_FreshIds == [](C10_DistinctIds) /\ [][C10_CreateStep]_vars

\* C10 witness: create_room has registered a room beside a registered one
C10_Witness ==
    /\ last.op = "create_room"
    /\ Len(rooms) = 2

\* C8: no room has more than max_players (7) players, and join_room for a
\* room that has max_players players or more emits one error to the
\* requesting connection and leaves the registry as it was.
C8_AtMostMaxPlayers == \A i \in 1..Len(rooms) : Count(rooms[i]) <= MaxPlayers

C8_JoinFullStep ==
    (/\ last'.op = "join_room"
     /\ HasRoom(rooms, last'.room_id)
     /\ Count(GetRoom(rooms, last'.room_id)) >= MaxPlayers) =>
        /\ rooms' = rooms
        /\ outbox' = <<Msg("error", "sid", "full")>>
        /\ UNCHANGED <<conn, nextOid, tasks, timer>>

C8_RoomFull == [](C8_AtMostMaxPlayers) /\ [][C8_JoinFullStep]_vars

\* C8 witness: the 8th join of a room of 7, one of them done and the timer
\* armed, is answered by the room-full error
C8_Witness ==
    /\ last.op = "join_room"
    /\ outbox = <<Msg("error", "sid", "full")>>
    /\ Count(GetRoom(rooms, last.room_id)) = 7
    /\ DoneCount(GetRoom(rooms, last.room_id)) = 1
    /\ GetRoom(rooms, last.room_id).timer_active

\* C9: join_room for a room_id that is not registered emits one error to the
\* requesting connection and leaves the registry as it was.
C9_JoinUnknownStep ==
    (last'.op = "join_room" /\ ~HasRoom(rooms, last'.room_id)) =>
        /\ rooms' = rooms
        /\ outbox' = <<Msg("error", "sid", "not_found")>>
        /\ UNCHANGED <<conn, nextOid, tasks, timer>>

C9_JoinUnknown == [][C9_JoinUnknownStep]_vars

\* C9 witness: a join of an unregistered room beside a registered one
C9_Witness ==
    /\ last.op = "join_room"
    /\ ~HasRoom(rooms, last.room_id)
    /\ Len(rooms) = 1
    /\ outbox = <<Msg("error", "sid", "not_found")>>

\* C11: between two advances of a room the grace deadline is written once: a
\* step emits timer_start to a room only if the room's timer was not active
\* before the step, and no step moves the deadline of an armed room later.
C11_ArmStep ==
    /\ \A k \in 1..Len(outbox') :
        outbox'[k].event = "timer_start" =>
            /\ HasRoom(rooms, outbox'[k].to)
            /\ ~GetRoom(rooms, outbox'[k].to).timer_active
    /\ \A r \in RoomIds :
        (SameRoomObject(r) /\ GetRoom(rooms, r).timer_active
                           /\ GetRoom(rooms', r).timer_active) =>
            GetRoom(rooms', r).turn_deadline <= GetRoom(rooms, r).turn_deadline

C11_ArmOnce == [][C11_ArmStep]_vars

\* C12: every disconnect handler that resumes after its system_message emit
\* runs to its end: none is stopped by the KeyError of rooms[room_id] for a
\* room that another disconnect has removed in the meantime.
C12_DisconnectCompletes == last.op # "disconnect_KeyError"

\* C13: once the disconnect of a connection has completed (the connection is
\* gone and no handler is suspended), the connection is a player of no
\* registered room.
C13_GoneEverywhere ==
    tasks = <<>> =>
        \A s \in DOMAIN conn :
            conn[s] = "gone" => \A i \in 1..Len(rooms) : s \notin DOMAIN rooms[i].players

\* C14: when a disconnect handler has completed and no other handler is
\* suspended, the room it left is not a non-empty room whose players are all
\* done: the turn has been advanced as part of the disconnect.
C14_AdvanceOnDisconnect ==
    (last.op = "disconnect_resume" /\ tasks = <<>> /\ HasRoom(rooms, last.room_id)) =>
        LET room == GetRoom(rooms, last.room_id) IN
        ~(Count(room) > 0 /\ DoneCount(room) = Count(room))

\* no connection of the run is a player of the registered room room_id
C15_Outsiders(room_id) ==
    /\ HasRoom(rooms, room_id)
    /\ \A s \in DOMAIN conn : s \notin DOMAIN GetRoom(rooms, room_id).players

\* C15: submit_turn_action or update_state for a registered room, sent by a
\* connection that is not a player of it, changes nothing and emits nothing:
\* the registry, the suspended handlers and the timer are as before.
C15_IgnoreStep ==
    (/\ last'.op \in {"submit_turn_action", "submit_ignored", "update_state"}
     /\ C15_Outsiders(last'.room_id)) =>
        /\ rooms' = rooms
        /\ outbox' = <<>>
        /\ UNCHANGED <<conn, nextOid, tasks, timer>>

C15_NonMemberIgnored == [][C15_IgnoreStep]_vars

\* C15 witness: update_state for the room in mid-turn (one of two done, timer
\* armed) by a connection while no connection of the run is a player of it
C15_Witness ==
    /\ last.op = "update_state"
    /\ C15_Outsiders(last.room_id)
    /\ GetRoom(rooms, last.room_id).timer_active
    /\ DoneCount(GetRoom(rooms, last.room_id)) = 1
    /\ Len(rooms) = 2

\* C16: submit_turn_action, update_state or get_player_list for a room_id
\* that is not registered emits the room-not-found error to the requesting
\* connection, as join_room does, and leaves the registry as it was.
C16_UnknownRoomStep ==
    (/\ last'.op \in {"submit_turn_action", "submit_ignored", "update_state",
                      "get_player_list"}
     /\ ~HasRoom(rooms, last'.room_id)) =>
        /\ rooms' = rooms
        /\ outbox' = JoinNotFound(rooms, last'.room_id).out

C16_UnknownRoomReported == [][C16_UnknownRoomStep]_vars

\* C17: every completion ratio broadcast by submit_turn_action has
\* 0 <= done_count <= total.
C17_RatioInRange ==
    \A k \in 1..Len(outbox) :
        (outbox[k].event = "system_message" /\ outbox[k].payload[1] = "turn_done") =>
            /\ 0 <= outbox[k].payload[2]
            /\ outbox[k].payload[2] <= outbox[k].payload[3]

\* C18: in every state, a room in which some player has is_turn_done set has
\* its timer active.
C18_DoneImpliesTimer ==
    \A i \in 1..Len(rooms) : DoneCount(rooms[i]) > 0 => rooms[i].timer_active

\* C18 witness: two of three players are done, after an earlier advance of
\* the room, while a submit handler is suspended at an emit
C18_Witness ==
    \E i \in 1..Len(rooms) :
        /\ rooms[i].turn = 1
        /\ Count(rooms[i]) = 3
        /\ DoneCount(rooms[i]) = 2
        /\ \E j \in 1..Len(tasks) : tasks[j].kind = "submit"

\* C19: a step that advances a room starts with at least one player of the
\* room done and ends with none done; and the number of done players of a
\* room grows only in the first segment of a submit_turn_action for that
\* room, by one.  Every advance so consumes at least one accepted submit
\* that no earlier advance has consumed.
C19_ConsumeStep ==
    \A r \in RoomIds :
        SameRoomObject(r) =>
            LET before == GetRoom(rooms, r)
                after == GetRoom(rooms', r)
            IN  /\ after.turn # before.turn =>
                    /\ DoneCount(before) >= 1
                    /\ DoneCount(after) = 0
                /\ DoneCount(after) > DoneCount(before) =>
                    /\ last'.op = "submit_turn_action"
                    /\ last'.room_id = r
                    /\ DoneCount(after) = DoneCount(before) + 1
                    /\ after.turn = before.turn

C19_AdvanceConsumes == [][C19_ConsumeStep]_vars

\* C19 witness: the timer_loop has advanced the room while a submit handler
\* was suspended, and the handler's trailing evaluation, run before the
\* timer_loop resumes, finds no player done and does not advance
C19_Witness ==
    /\ last.op = "submit_check"
    /\ last.advanced = {}
    /\ last.done_count = 0
    /\ last.count = 2
    /\ timer.pc = "scan"
    /\ GetRoom(rooms, last.room_id).turn = 1

\* C20: while a player stays in a room, a step clears the player's
\* is_turn_done only by advancing the room's turn; and a join_room that
\* succeeds (room_joined is emitted) adds exactly one player to the room.
C20_FlagStep ==
    /\ \A r \in RoomIds :
        SameRoomObject(r) =>
            \A s \in (DOMAIN GetRoom(rooms, r).players) \cap (DOMAIN GetRoom(rooms', r).players) :
                (/\ GetRoom(rooms, r).players[s].is_turn_done
                 /\ ~GetRoom(rooms', r).players[s].is_turn_done) =>
                    GetRoom(rooms', r).turn = GetRoom(rooms, r).turn + 1
    /\ (/\ last'.op = "join_room"
        /\ \E k \in 1..Len(outbox') : outbox'[k].event = "room_joined") =>
            /\ SameRoomObject(last'.room_id)
            /\ Count(GetRoom(rooms', last'.room_id)) = Count(GetRoom(rooms, last'.room_id)) + 1

C20_FlagOnlyClearedByAdvance == [][C20_FlagStep]_vars
====
